---- MODULE Spec2Model ----
(***************************************************************************)
(* A model of the finite-group engine of src/groups.py (class Group) and   *)
(* of the subset enumerator of src/functions.py.                           *)
(*                                                                         *)
(* A Group object is the four fields elements, fn, identity, inverses.     *)
(* Group elements are integers (Python compares and sorts the element      *)
(* values; the integers stand for the values in their sort order).  The    *)
(* operation fn is a Cayley table, as Group.from_file builds it: a lookup  *)
(* outside the table raises KeyError.                                      *)
(*                                                                         *)
(* An optional value is a sequence of length at most one: <<>> is Python's *)
(* None (or an attribute that was never assigned), <<x>> is the value x.   *)
(***************************************************************************)
EXTENDS Integers, Sequences, FiniteSets, TLC

VARIABLES elements, fn, identity, inverses, pc, op, args, ret, passes

vars == <<elements, fn, identity, inverses, pc, op, args, ret, passes>>

----------------------------------------------------------------------------
(* Bounds of the model. *)

\* The cyclic groups Z_1 .. Z_MaxCyclic are among the inputs.
MaxCyclic == 5
\* powerOf is called with exponents -MaxExp .. MaxExp.
MaxExp == 3
\* generators is called with maxN in 1 .. MaxN and maxPower in 1 .. MaxPower.
MaxN == 2
MaxPower == 2
\* How many times the caller iterates one returned sequence.
MaxPasses == 2

----------------------------------------------------------------------------
(* Sequences and sets. *)

Range(q) == {q[i] : i \in 1..Len(q)}

Contains(q, x) == \E i \in 1..Len(q) : q[i] = x

Reverse(q) == [i \in 1..Len(q) |-> q[Len(q) + 1 - i]]

\* q rotated left by k places.
Rotate(q, k) == [i \in 1..Len(q) |-> q[((i - 1 + k) % Len(q)) + 1]]

Min(S) == CHOOSE x \in S : \A y \in S : x <= y

\* sorted(list(S)) for a set S of integers.
RECURSIVE sorted(_)
sorted(S) == IF S = {} THEN <<>> ELSE <<Min(S)>> \o sorted(S \ {Min(S)})

\* The collection orders a set of elements is given in: every rotation of
\* the sorted listing and of its reverse (any element may come first).
Orders(S) ==
  {Rotate(sorted(S), k) : k \in 0..(Cardinality(S) - 1)}
    \cup {Rotate(Reverse(sorted(S)), k) : k \in 0..(Cardinality(S) - 1)}

RECURSIVE Concat(_)
Concat(ss) == IF ss = <<>> THEN <<>> ELSE Head(ss) \o Concat(Tail(ss))

\* itertools.combinations(A, k): the k-element subsequences of A, in
\* lexicographic order of positions.
RECURSIVE combinations(_, _)
combinations(A, k) ==
  IF k = 0 THEN << <<>> >>
  ELSE IF Len(A) < k THEN <<>>
  ELSE LET with == combinations(Tail(A), k - 1)
       IN [i \in 1..Len(with) |-> <<Head(A)>> \o with[i]] \o combinations(Tail(A), k)

\* itertools.product(A, repeat=n): the n-tuples over A, last position fastest.
RECURSIVE product(_, _)
product(A, n) ==
  IF n = 0 THEN << <<>> >>
  ELSE LET rest == product(A, n - 1)
       IN Concat([i \in 1..Len(A) |-> [j \in 1..Len(rest) |-> <<A[i]>> \o rest[j]]])

\* functions.powerset(A): the empty tuple, the combinations of sizes
\* 1 .. len(A)-1, then the full tuple.
powerset(A) ==
  << <<>> >> \o Concat([k \in 1..(Len(A) - 1) |-> combinations(A, k)]) \o <<A>>

----------------------------------------------------------------------------
(* Input tables (what Group.from_file reads): a set of elements and a table. *)

CyclicOp(n, a, b) == (a + b) % n
Cyclic(n) == [elems |-> 0..(n - 1), tbl |-> [p \in (0..(n - 1)) \X (0..(n - 1)) |-> CyclicOp(n, p[1], p[2])]]

\* The Klein four-group: bitwise exclusive or on 0..3.
KleinOp(a, b) == (((a % 2) + (b % 2)) % 2) + 2 * (((a \div 2) + (b \div 2)) % 2)
Klein == [elems |-> 0..3, tbl |-> [p \in (0..3) \X (0..3) |-> KleinOp(p[1], p[2])]]

\* The symmetric group on 3 symbols over e, r, r2, s, sr, sr2, numbered 0..5 in
\* that (sorted) order: element 3j+k is s^j r^k, and r^k s = s r^(-k).
S3Op(a, b) ==
  LET j1 == a \div 3  k1 == a % 3  j2 == b \div 3  k2 == b % 3
  IN 3 * ((j1 + j2) % 2) + (((IF j2 = 0 THEN k1 ELSE 3 - k1) + k2) % 3)
S3 == [elems |-> 0..5, tbl |-> [p \in (0..5) \X (0..5) |-> S3Op(p[1], p[2])]]

\* Operations with no two-sided identity: x*y = x, and x*y = 0.
LeftZero == [elems |-> 0..1, tbl |-> [p \in (0..1) \X (0..1) |-> p[1]]]
Constant == [elems |-> 0..2, tbl |-> [p \in (0..2) \X (0..2) |-> 0]]

ValidTables == {Cyclic(n) : n \in 1..MaxCyclic} \cup {Klein, S3}
Tables == ValidTables \cup {LeftZero, Constant}

----------------------------------------------------------------------------
(* Group.__init__ and the searches it runs. *)

\* self.fn(a, b) on a table: <<c>>, or <<>> when the lookup raises KeyError.
Call(f, a, b) == IF <<a, b>> \in DOMAIN f THEN <<f[<<a, b>>]>> ELSE <<>>

\* is_identity(a), from the i-th element on: "True", "False", or "KeyError".
RECURSIVE is_identity_from(_, _, _, _)
is_identity_from(elems, f, a, i) ==
  IF i > Len(elems) THEN "True"
  ELSE LET b == elems[i]
           ab == Call(f, a, b)
           ba == Call(f, b, a)
       IN IF ab = <<>> THEN "KeyError"
          ELSE IF ab[1] # b THEN "False"
          ELSE IF ba = <<>> THEN "KeyError"
          ELSE IF ba[1] # b THEN "False"
          ELSE is_identity_from(elems, f, a, i + 1)

is_identity(elems, f, a) == is_identity_from(elems, f, a, 1)

\* cache_identity, from the i-th element on: <<"ok", <<a>>>> with the first
\* identity found, <<"ok", <<>>>> when the loop ends and self.identity was
\* never assigned, or <<"KeyError">>.
RECURSIVE cache_identity_from(_, _, _)
cache_identity_from(elems, f, i) ==
  IF i > Len(elems) THEN <<"ok", <<>>>>
  ELSE LET t == is_identity(elems, f, elems[i])
       IN IF t = "KeyError" THEN <<"KeyError">>
          ELSE IF t = "True" THEN <<"ok", <<elems[i]>>>>
          ELSE cache_identity_from(elems, f, i + 1)

cache_identity(elems, f) == cache_identity_from(elems, f, 1)

\* inverse(a), from the i-th element on: <<"ok", <<b>>>> with the first b such
\* that a*b is the identity, <<"ok", <<>>>> (None) when there is none,
\* <<"KeyError">>, or <<"AttributeError">> when self.identity is read and was
\* never assigned.
RECURSIVE inverse_from(_, _, _, _, _)
inverse_from(elems, f, id, a, i) ==
  IF i > Len(elems) THEN <<"ok", <<>>>>
  ELSE LET ab == Call(f, a, elems[i])
       IN IF ab = <<>> THEN <<"KeyError">>
          ELSE IF id = <<>> THEN <<"AttributeError">>
          ELSE IF ab[1] = id[1] THEN <<"ok", <<elems[i]>>>>
          ELSE inverse_from(elems, f, id, a, i + 1)

inverse(self, a) == inverse_from(self.elements, self.fn, self.identity, a, 1)

\* cache_inverses, from the i-th element on, with the dictionary built so far.
RECURSIVE cache_inverses_from(_, _, _)
cache_inverses_from(self, i, dict) ==
  IF i > Len(self.elements) THEN <<"ok", dict>>
  ELSE LET g == self.elements[i]
           b == inverse(self, g)
       IN IF b[1] # "ok" THEN b
          ELSE cache_inverses_from(self, i + 1,
                 [x \in DOMAIN dict \cup {g} |-> IF x = g THEN b[2] ELSE dict[x]])

cache_inverses(self) == cache_inverses_from(self, 1, <<>>)

\* Group(elems, f): the object __init__ leaves, with raised = "" when it
\* returns and the exception's name when it raises.
Group(elems, f) ==
  LET ci == cache_identity(elems, f)
      self0 == [elements |-> elems, fn |-> f,
                identity |-> IF ci[1] = "ok" THEN ci[2] ELSE <<>>,
                inverses |-> <<>>, raised |-> ""]
      inv == cache_inverses(self0)
  IN IF ci[1] # "ok" THEN [self0 EXCEPT !.raised = ci[1]]
     ELSE IF inv[1] # "ok" THEN [self0 EXCEPT !.raised = inv[1]]
     ELSE [self0 EXCEPT !.inverses = inv[2]]

----------------------------------------------------------------------------
(* The methods of a constructed Group.  They are applied to groups whose    *)
(* construction returned with every inverse found, so no lookup raises.     *)

\* operation(a, b).
operation(self, a, b) == self.fn[<<a, b>>]

\* powerOf(a, n): the loop of lines 73-75, with b the running value and i the
\* iterations left.
RECURSIVE powerOf_loop(_, _, _, _)
powerOf_loop(self, c, b, i) ==
  IF i = 0 THEN b ELSE powerOf_loop(self, c, operation(self, b, c), i - 1)

powerOf(self, a, n) ==
  IF n = 0 THEN self.identity[1]
  ELSE powerOf_loop(self, IF n > 0 THEN a ELSE inverse(self, a)[2][1], a,
                    IF n > 0 THEN n ELSE -n)

\* order(a): the while loop of lines 184-186.
RECURSIVE order_loop(_, _, _, _)
order_loop(self, a, x, n) ==
  IF x = self.identity[1] THEN n
  ELSE order_loop(self, a, operation(self, x, a), n + 1)

order(self, a) == order_loop(self, a, a, 1)

\* left_coset with the loop variable h never used: a is multiplied by itself.
left_coset_ignoring_h(self, subgroup, a) ==
  sorted({operation(self, a, a) : i \in 1..Len(subgroup)})

\* left_coset(subgroup, a) and right_coset(subgroup, a): a sorted tuple.
left_coset(self, subgroup, a) ==
  sorted({operation(self, a, subgroup[i]) : i \in 1..Len(subgroup)})

right_coset(self, subgroup, a) ==
  sorted({operation(self, subgroup[i], a) : i \in 1..Len(subgroup)})

\* left_cosets(subgroup) and right_cosets(subgroup): tuple(set(...)).  The
\* order of the tuple is the set's iteration order, which Python leaves open;
\* the result is kept as the set of its items.
left_cosets(self, subgroup) ==
  {left_coset(self, subgroup, self.elements[i]) : i \in 1..Len(self.elements)}

right_cosets(self, subgroup) ==
  {right_coset(self, subgroup, self.elements[i]) : i \in 1..Len(self.elements)}

\* is_subgroup(H).
is_subgroup(self, H) ==
  /\ Contains(H, self.identity[1])
  /\ \A i, j \in 1..Len(H) :
       Contains(H, operation(self, H[i], self.inverses[H[j]][1]))

\* is_normal_divisor without the conjugation loop of lines 134-139.
is_normal_divisor_unconjugated(self, N) == is_subgroup(self, N)

\* is_normal_divisor(N).
is_normal_divisor(self, N) ==
  /\ is_subgroup(self, N)
  /\ \A i \in 1..Len(self.elements) : \A j \in 1..Len(N) :
       LET g == self.elements[i]
           g_ == self.inverses[g][1]
       IN Contains(N, operation(self, g, operation(self, N[j], g_)))

\* subgroup(H).
subgroup(self, H) == Group(H, self.fn)

\* The set built by lines 152-155 of generators for one tuple gen: the values
\* powerOf(g, p - maxPower) for g in gen and p in range(maxPower * 2).
generated(self, gen, maxPower) ==
  {powerOf(self, gen[i], p - maxPower) : i \in 1..Len(gen), p \in 0..(maxPower * 2 - 1)}

\* subgroups(), normal_divisors() and generators(maxN, maxPower) return a lazy
\* object (a map over a filter over a generator; a generator): nothing is
\* computed by the call.  The object is its kind, its arguments and its
\* cursor: how many candidates it has consumed.
subgroups(self) == [kind |-> "subgroups", cursor |-> 0, maxN |-> 0, maxPower |-> 0]

normal_divisors(self) == [kind |-> "normal_divisors", cursor |-> 0, maxN |-> 0, maxPower |-> 0]

generators(self, maxN, maxPower) ==
  [kind |-> "generators", cursor |-> 0, maxN |-> maxN, maxPower |-> maxPower]

\* The candidates a lazy object runs through, in order.
candidates(self, it) ==
  IF it.kind = "generators"
  THEN Concat([n \in 1..it.maxN |-> product(self.elements, n)])
  ELSE powerset(self.elements)

\* Whether candidate c passes the object's filter.
passes_filter(self, it, c) ==
  CASE it.kind = "subgroups" -> is_subgroup(self, c)
    [] it.kind = "normal_divisors" -> is_normal_divisor(self, c)
    [] it.kind = "generators" -> Cardinality(generated(self, c, it.maxPower)) = Len(self.elements)

\* What the object yields for a candidate that passes.
item(self, it, c) == IF it.kind = "generators" THEN c ELSE subgroup(self, c)

\* iter(it) of a restartable collection: every for loop starts from the top.
iter_restarting(it) == [it EXCEPT !.cursor = 0]

\* iter(it), which a for loop calls first: a map object and a generator
\* return themselves, cursor and all.
iter(it) == it

\* The position of the first candidate among positions lo .. hi that passes
\* the filter, or 0 when none of them does (the scan of the filter, by halves).
RECURSIVE first_passing(_, _, _, _, _)
first_passing(self, it, cands, lo, hi) ==
  IF lo > hi THEN 0
  ELSE IF lo = hi THEN (IF passes_filter(self, it, cands[lo]) THEN lo ELSE 0)
  ELSE LET mid == (lo + hi) \div 2
           left == first_passing(self, it, cands, lo, mid)
       IN IF left # 0 THEN left ELSE first_passing(self, it, cands, mid + 1, hi)

\* next(it): <<the object afterwards, the item yielded>>, the item being <<>>
\* when StopIteration is raised.
next(self, it) ==
  LET cands == candidates(self, it)
      j == first_passing(self, it, cands, it.cursor + 1, Len(cands))
  IN IF j = 0 THEN <<[it EXCEPT !.cursor = Len(cands)], <<>>>>
     ELSE <<[it EXCEPT !.cursor = j], <<item(self, it, cands[j])>>>>

\* The lambda product(H) gives the new Group: it is defined where both
\* tables are.
product_fn(self, H) ==
  LET D == Range(self.elements) \cup Range(H.elements)
      P == D \X D
  IN [p \in {q \in P \X P : /\ <<q[1][1], q[2][1]>> \in DOMAIN self.fn
                             /\ <<q[1][2], q[2][2]>> \in DOMAIN H.fn}
        |-> <<self.fn[<<p[1][1], p[2][1]>>], H.fn[<<p[1][2], p[2][2]>>]>>]

\* product(H).
Group_product(self, H) == Group(product(self.elements, 2), product_fn(self, H))

\* The loop of factorize without the "if not gn in GN" guard: the last element
\* of a coset names it.
RECURSIVE factorize_loop_unguarded(_, _, _, _)
factorize_loop_unguarded(self, N, i, GN) ==
  IF i > Len(self.elements) THEN GN
  ELSE LET g == self.elements[i]
           gn == left_coset(self, N.elements, g)
       IN factorize_loop_unguarded(self, N, i + 1,
            [c \in DOMAIN GN \cup {gn} |-> IF c = gn THEN g ELSE GN[c]])

\* The dictionary GN of factorize, built by the loop of lines 223-226 from
\* the i-th element on.
RECURSIVE factorize_loop(_, _, _, _)
factorize_loop(self, N, i, GN) ==
  IF i > Len(self.elements) THEN GN
  ELSE LET g == self.elements[i]
           gn == left_coset(self, N.elements, g)
       IN factorize_loop(self, N, i + 1,
            IF gn \in DOMAIN GN THEN GN
            ELSE [c \in DOMAIN GN \cup {gn} |-> IF c = gn THEN g ELSE GN[c]])

\* The lambda factorize gives the new Group: it is defined where self.fn is
\* and the coset of the product is a key of GN.
factorize_fn(self, N, GN) ==
  [p \in {q \in DOMAIN self.fn : left_coset(self, N.elements, self.fn[q]) \in DOMAIN GN}
     |-> GN[left_coset(self, N.elements, self.fn[p])]]

\* factorize(N).
factorize(self, N) ==
  LET GN == factorize_loop(self, N, 1, <<>>)
  IN Group(sorted({GN[c] : c \in DOMAIN GN}), factorize_fn(self, N, GN))

----------------------------------------------------------------------------
(* The object under test. *)

Self == [elements |-> elements, fn |-> fn, identity |-> identity,
         inverses |-> inverses, raised |-> ""]

Init ==
  /\ \E t \in Tables : \E o \in Orders(t.elems) : elements = o /\ fn = t.tbl
  /\ identity = <<>>
  /\ inverses = <<>>
  /\ pc = "new"
  /\ op = ""
  /\ args = <<>>
  /\ ret = <<>>
  /\ passes = <<>>

\* Group.__init__(elements, fn).
New ==
  /\ pc = "new"
  /\ LET g == Group(elements, fn)
     IN /\ identity' = g.identity
        /\ inverses' = g.inverses
        /\ pc' = IF g.raised = "" THEN "ready" ELSE "raised"
        /\ op' = "__init__"
        /\ ret' = g.raised
  /\ UNCHANGED <<elements, fn, args, passes>>

\* powerOf(a, n).
PowerOf ==
  /\ pc = "ready"
  /\ \E i \in 1..Len(elements) : \E n \in (-MaxExp)..MaxExp :
       /\ op' = "powerOf"
       /\ args' = <<elements[i], n>>
       /\ ret' = powerOf(Self, elements[i], n)
  /\ pc' = "returned"
  /\ UNCHANGED <<elements, fn, identity, inverses, passes>>

\* order(a).
Order ==
  /\ pc = "ready"
  /\ \E i \in 1..Len(elements) :
       /\ op' = "order"
       /\ args' = <<elements[i]>>
       /\ ret' = order(Self, elements[i])
  /\ pc' = "returned"
  /\ UNCHANGED <<elements, fn, identity, inverses, passes>>

\* left_cosets(H), for H any subset of the elements (as powerset lists them).
LeftCosets ==
  /\ pc = "ready"
  /\ LET subsets == powerset(elements)
     IN \E i \in 1..Len(subsets) :
          /\ op' = "left_cosets"
          /\ args' = <<subsets[i]>>
          /\ ret' = left_cosets(Self, subsets[i])
  /\ pc' = "returned"
  /\ UNCHANGED <<elements, fn, identity, inverses, passes>>

\* right_cosets(H).
RightCosets ==
  /\ pc = "ready"
  /\ LET subsets == powerset(elements)
     IN \E i \in 1..Len(subsets) :
          /\ op' = "right_cosets"
          /\ args' = <<subsets[i]>>
          /\ ret' = right_cosets(Self, subsets[i])
  /\ pc' = "returned"
  /\ UNCHANGED <<elements, fn, identity, inverses, passes>>

\* subgroups().
Subgroups ==
  /\ pc = "ready"
  /\ op' = "subgroups"
  /\ args' = <<>>
  /\ ret' = subgroups(Self)
  /\ pc' = "returned"
  /\ UNCHANGED <<elements, fn, identity, inverses, passes>>

\* normal_divisors().
NormalDivisors ==
  /\ pc = "ready"
  /\ op' = "normal_divisors"
  /\ args' = <<>>
  /\ ret' = normal_divisors(Self)
  /\ pc' = "returned"
  /\ UNCHANGED <<elements, fn, identity, inverses, passes>>

\* generators(maxN, maxPower).
Generators ==
  /\ pc = "ready"
  /\ \E maxN \in 1..MaxN : \E maxPower \in 1..MaxPower :
       /\ op' = "generators"
       /\ args' = <<maxN, maxPower>>
       /\ ret' = generators(Self, maxN, maxPower)
  /\ pc' = "returned"
  /\ UNCHANGED <<elements, fn, identity, inverses, passes>>

IsLazy == op \in {"subgroups", "normal_divisors", "generators"}

\* The caller starts a for loop over the returned object: the first one, or
\* one more after the object raised StopIteration.
Iterate ==
  /\ IsLazy
  /\ pc \in {"returned", "exhausted"}
  /\ Len(passes) < MaxPasses
  /\ ret' = iter(ret)
  /\ passes' = Append(passes, <<>>)
  /\ pc' = "iterating"
  /\ UNCHANGED <<elements, fn, identity, inverses, op, args>>

\* One round of the for loop: next(ret) yields an item, or ends the loop.
IterNext ==
  /\ IsLazy
  /\ pc = "iterating"
  /\ LET n == next(Self, ret)
     IN /\ ret' = n[1]
        /\ IF n[2] = <<>>
           THEN pc' = "exhausted" /\ passes' = passes
           ELSE /\ pc' = "iterating"
                /\ passes' = [passes EXCEPT ![Len(passes)] = Append(@, n[2][1])]
  /\ UNCHANGED <<elements, fn, identity, inverses, op, args>>

\* The groups product(H) is called with: every valid table in every
\* collection order.
Others == UNION {{Group(o, t.tbl) : o \in Orders(t.elems)} : t \in ValidTables}

\* product(H).
Product ==
  /\ pc = "ready"
  /\ \E H \in Others :
       /\ op' = "product"
       /\ args' = <<H>>
       /\ ret' = Group_product(Self, H)
  /\ pc' = "returned"
  /\ UNCHANGED <<elements, fn, identity, inverses, passes>>

\* factorize(N), for N any of the groups subgroups() yields.
Factorize ==
  /\ pc = "ready"
  /\ LET subsets == powerset(elements)
     IN \E i \in 1..Len(subsets) :
          /\ is_subgroup(Self, subsets[i])
          /\ op' = "factorize"
          /\ args' = <<subgroup(Self, subsets[i])>>
          /\ ret' = factorize(Self, subgroup(Self, subsets[i]))
  /\ pc' = "returned"
  /\ UNCHANGED <<elements, fn, identity, inverses, passes>>

Next ==
  \/ New
  \/ PowerOf
  \/ Order
  \/ LeftCosets
  \/ RightCosets
  \/ Subgroups
  \/ NormalDivisors
  \/ Generators
  \/ Iterate
  \/ IterNext
  \/ Product
  \/ Factorize

Spec == Init /\ [][Next]_vars

----------------------------------------------------------------------------
(* What the properties below are stated with. *)

\* A call on the constructed group has returned.
Returned == pc = "returned"

\* n >= 1 copies of a multiplied together.
RECURSIVE Copies(_, _, _)
Copies(self, a, n) ==
  IF n = 1 THEN a ELSE operation(self, Copies(self, a, n - 1), a)

\* The p-th power of g as powerOf is specified: the identity for p = 0, p
\* copies of g for p > 0, |p| copies of inverse(g) for p < 0.
SpecPower(self, g, p) ==
  IF p = 0 THEN self.identity[1]
  ELSE IF p > 0 THEN Copies(self, g, p)
  ELSE Copies(self, self.inverses[g][1], -p)

\* The items a lazy object yields when it is run through once from the top.
AllItems(self, it) ==
  LET cands == candidates(self, it)
      kept == SelectSeq(cands, LAMBDA c : passes_filter(self, it, c))
  IN [i \in 1..Len(kept) |-> item(self, it, kept[i])]

\* The sizes of the groups of a sequence of Group objects.
Sizes(groups) == [i \in 1..Len(groups) |-> Len(groups[i].elements)]

\* The first element, in collection order, whose left coset under N is that of g.
Rep(self, N, g) ==
  self.elements[Min({i \in 1..Len(self.elements) :
     left_coset(self, N.elements, self.elements[i]) = left_coset(self, N.elements, g)})]

----------------------------------------------------------------------------
(* The claims. *)

\* C1: for every element a, powerOf(a, 0) is the identity, powerOf(a, 1) is a,
\* powerOf(a, -1) is inverse(a), and powerOf(a, n) for n > 1 is the product of
\* exactly n copies of a.
C1_PowerOfIsNthPower ==
  (Returned /\ op = "powerOf") =>
    LET a == args[1]
        n == args[2]
    IN /\ (n = 0 => ret = identity[1])
       /\ (n = 1 => ret = a)
       /\ (n = -1 => ret = inverse(Self, a)[2][1])
       /\ (n > 1 => ret = Copies(Self, a, n))

\* C2: G.product(H) is a Group whose elements are exactly the Cartesian
\* product of G's elements and H's elements, so |G|*|H| of them, and whose
\* operation applies G's operation to the first components and H's to the
\* second.
C2_ProductIsDirectProduct ==
  (Returned /\ op = "product") =>
    LET H == args[1]
    IN /\ ret.raised = ""
       /\ Range(ret.elements) = Range(elements) \X Range(H.elements)
       /\ Len(ret.elements) = Len(elements) * Len(H.elements)
       /\ \A x, y \in Range(ret.elements) :
            Call(ret.fn, x, y) = << <<fn[<<x[1], y[1]>>], H.fn[<<x[2], y[2]>>]>> >>

\* C3: for every subset H with is_subgroup(H), left_cosets(H) and
\* right_cosets(H) each return cosets that are pairwise disjoint, each of size
\* |H|, none repeated, whose union is all of the elements: |G|/|H| cosets.
C3_CosetsPartition ==
  (Returned /\ op \in {"left_cosets", "right_cosets"} /\ is_subgroup(Self, args[1])) =>
    LET H == args[1]
    IN /\ \A c \in ret : Len(c) = Len(H) /\ Cardinality(Range(c)) = Len(H)
       /\ \A c, d \in ret : c # d => Range(c) \cap Range(d) = {}
       /\ UNION {Range(c) : c \in ret} = Range(elements)
       /\ Cardinality(ret) * Len(H) = Len(elements)

\* C3's case: the left cosets of a proper, non-trivial subgroup of a group in
\* which they differ from the right cosets.
C3_Witness ==
  /\ Returned
  /\ op = "left_cosets"
  /\ is_subgroup(Self, args[1])
  /\ Len(args[1]) > 1
  /\ Len(args[1]) < Len(elements)
  /\ ret # right_cosets(Self, args[1])

\* C4: for the symmetric group on 3 symbols, subgroups() yields exactly 6
\* groups of sizes 1,2,2,2,3,6, normal_divisors() yields exactly 3 of sizes
\* 1,3,6, and factorize of the normal divisor of order 3 returns a Group of 2
\* elements whose operation is that of the cyclic group of order 2.
C4_SymmetricGroup ==
  (fn = S3.tbl) =>
    /\ (op = "subgroups" /\ pc = "exhausted") => Sizes(passes[1]) = <<1, 2, 2, 2, 3, 6>>
    /\ (op = "normal_divisors" /\ pc = "exhausted") => Sizes(passes[1]) = <<1, 3, 6>>
    /\ (op = "factorize" /\ Returned /\ Len(args[1].elements) = 3) =>
         /\ ret.raised = ""
         /\ Len(ret.elements) = 2
         /\ \E i, x \in Range(ret.elements) :
              /\ i # x
              /\ Call(ret.fn, i, i) = <<i>>
              /\ Call(ret.fn, i, x) = <<x>>
              /\ Call(ret.fn, x, i) = <<x>>
              /\ Call(ret.fn, x, x) = <<i>>

\* C4's case: normal_divisors() of the symmetric group run to its end.
C4_Witness ==
  /\ fn = S3.tbl
  /\ op = "normal_divisors"
  /\ pc = "exhausted"
  /\ Len(passes[1]) = 3

\* C5: order(a) returns the smallest n >= 1 such that powerOf(a, n) is the
\* identity.
C5_OrderAgreesWithPowerOf ==
  (Returned /\ op = "order") =>
    LET a == args[1]
    IN /\ ret >= 1
       /\ powerOf(Self, a, ret) = identity[1]
       /\ \A m \in 1..(ret - 1) : powerOf(Self, a, m) # identity[1]

\* C6: generators(maxN, maxPower) yields, in the order of the candidates,
\* exactly the tuples for which the set of the p-th powers of their members,
\* -maxPower <= p < maxPower, has as many members as the group, the p-th power
\* being as powerOf is specified.
C6_GeneratorsBySpecifiedPowers ==
  (op = "generators" /\ pc = "exhausted") =>
    LET maxPower == args[2]
        reach(gen) == {SpecPower(Self, gen[i], p) :
                         i \in 1..Len(gen), p \in (-maxPower)..(maxPower - 1)}
    IN passes[1] = SelectSeq(candidates(Self, ret),
                             LAMBDA gen : Cardinality(reach(gen)) = Len(elements))

\* C7: for every subgroup N that is not a normal divisor, factorize(N)
\* returns a Group object and raises nothing.
C7_FactorizeNeverRaises ==
  (Returned /\ op = "factorize" /\ ~is_normal_divisor(Self, args[1].elements)) =>
    ret.raised = ""

\* C8: constructing a Group from a non-empty collection and an operation
\* with no two-sided identity does not raise: the identity is left not found,
\* every inverse is the not-found value, and construction completes.
C8_NoIdentityConstructs ==
  (/\ op = "__init__"
   /\ elements # <<>>
   /\ \A i \in 1..Len(elements) : is_identity(elements, fn, elements[i]) # "True") =>
    /\ pc = "ready"
    /\ identity = <<>>
    /\ \A g \in Range(elements) : g \in DOMAIN inverses /\ inverses[g] = <<>>

\* C9 as stated: once the returned sequence has been iterated to exhaustion,
\* iterating the same sequence again yields the same items again.
C9_ReiterationRepeats ==
  (IsLazy /\ pc = "exhausted" /\ Len(passes) >= 2) => passes[Len(passes)] = passes[1]

\* C9 as amended: the first iteration yields every item, and once the
\* returned sequence has been iterated to exhaustion, iterating the same
\* sequence again yields no items.
C9_ReiterationIsEmpty ==
  (IsLazy /\ pc = "exhausted") =>
    /\ passes[1] = AllItems(Self, ret)
    /\ \A k \in 2..Len(passes) : passes[k] = <<>>

\* C9's case: a sequence that yielded items, iterated a second time to its end.
C9_Witness ==
  /\ IsLazy
  /\ pc = "exhausted"
  /\ Len(passes) = 2
  /\ passes[1] # <<>>

\* C10: for every normal divisor N, with rep(g) the first element in
\* collection order whose left coset is that of g, factorize(N) has as
\* elements the sorted list of the distinct rep values, its operation is
\* closed on them, and Q.operation(rep(a), rep(b)) = rep(G.operation(a, b))
\* for all a, b.
C10_QuotientByRepresentatives ==
  (Returned /\ op = "factorize" /\ is_normal_divisor(Self, args[1].elements)) =>
    LET N == args[1]
        Q == ret
    IN /\ Q.raised = ""
       /\ Q.elements = sorted({Rep(Self, N, g) : g \in Range(elements)})
       /\ \A x, y \in Range(Q.elements) :
            Call(Q.fn, x, y) # <<>> /\ Call(Q.fn, x, y)[1] \in Range(Q.elements)
       /\ \A a, b \in Range(elements) :
            Call(Q.fn, Rep(Self, N, a), Rep(Self, N, b)) = <<Rep(Self, N, fn[<<a, b>>])>>

\* C10's case: a proper, non-trivial normal divisor of a group whose identity
\* is not first in the collection, so that the identity names no coset.
C10_Witness ==
  /\ Returned
  /\ op = "factorize"
  /\ is_normal_divisor(Self, args[1].elements)
  /\ Len(args[1].elements) > 1
  /\ Len(args[1].elements) < Len(elements)
  /\ ~Contains(ret.elements, identity[1])
====
